---- MODULE Spec2Model ----
(***************************************************************************)
(* State-machine model of examples/sound_info_optimized.py and             *)
(* examples/sound_info.py: one process running main(), which either        *)
(* fetches one sound (sound_info) or drives a batch                         *)
(* (process_multiple_sounds), with the module-level globals api_instance,  *)
(* last_request_time and shutting_down, and the asynchronous signal        *)
(* handler of the optimized script.                                         *)
(*                                                                         *)
(* The two scripts share initialize_api, sound_info and the batch loop;     *)
(* the variable script says which one runs.  sound_info.py has no          *)
(* shutting_down flag and no signal handler (ShuttingDown is FALSE there),  *)
(* truncates with TruncateBasic, divides by len(sound_ids) in its summary   *)
(* and has no "except Exception" in main.                                   *)
(*                                                                         *)
(* The external library is modelled by its outcomes: TikTokApi() and        *)
(* create_sessions return or raise, sound.info() returns a payload or       *)
(* raises after 0..MaxFetchTime ticks (and cannot return a payload on a     *)
(* client without a session), open/json.dump succeed or raise.  Sleeps      *)
(* last exactly as long as asked; no other step takes time.                 *)
(*                                                                         *)
(* Time is counted in ticks of 0.05 s (time.time() read as an integer).    *)
(* None is the empty tuple; a payload or an API object is a 1-tuple; the   *)
(* pair sound_info returns is a 2-tuple <<payload-or-None, elapsed>>.      *)
(***************************************************************************)
EXTENDS Integers, Sequences, FiniteSets, TLC

\* ---------------------------------------------------------------- bounds
MaxIds == 2          \* longest identifier file
MaxRetry == 2        \* largest --retry value
MaxFetchTime == 1    \* longest fetch (sound.info()) in ticks
MaxSignals == 2      \* signals delivered to the process

\* ------------------------------------------------------ program constants
MIN_REQUEST_DELAY == 2                      \* 0.1 s
RETRY_BASE_DELAY == 10 * MIN_REQUEST_DELAY  \* "1 * attempts" seconds
DEFAULT_RETRY == 1                          \* retry_count=1

None == <<>>
Min(a, b) == IF a < b THEN a ELSE b
Max(a, b) == IF a < b THEN b ELSE a

VARIABLES
    script,             \* "optimized" | "basic": which file is running
    mode,               \* invocation form: "single" | "batch" | "file"
    argCount,           \* --batch <count> / --file <f> <count>
    argRetry,           \* --retry
    fileIds,            \* identifiers read from the file, in file order
    pc,                 \* position of the (single) task
    caller,             \* who called sound_info: "pms" | "main"
    now,                \* time.time()
    \* module globals
    api_instance, last_request_time, shutting_down,
    \* the external client behind api_instance
    sessions_ready,     \* create_sessions has completed on api_instance
    \* process_multiple_sounds locals
    \* (results and csv_rows hold <<sound_id, success>>; the time columns are left out)
    sound_ids, idx, results, csv_file, csv_rows, pms_outcome,
    \* sound_info locals
    sound_id, retry_count, start_time, attempts, elapsed, delay, ret,
    \* file system: identifiers whose sound_info_<id>.json exists, and those
    \* whose file holds the whole payload
    files, written,
    \* signals delivered so far, and the exception unwinding main, if any
    signals, unwinding,
    \* observations (written, never read by the program)
    tries,              \* passes through the try body in this sound_info call
    sleeps,             \* backoff sleeps of this sound_info call
    lastFetchStart,     \* start time of the latest sound.info() call, 0 if none
    lastGap,            \* ticks between the latest two starts (MIN_REQUEST_DELAY
                        \* stands for "that much or more", and for "no pair yet")
    ctorCalls,          \* TikTokApi() objects constructed
    createCalls,        \* create_sessions invocations
    createFailed,       \* create_sessions has raised
    closeCalls,         \* close_sessions invocations
    stopCalls,          \* stop_playwright invocations
    attempted,          \* identifiers for which the try body was entered
    sigItem             \* batch item in progress when the first signal came

inputs == <<script, mode, argCount, argRetry, fileIds>>
globals == <<api_instance, last_request_time, shutting_down, sessions_ready>>
pmsLocals == <<sound_ids, idx, results, csv_file, csv_rows, pms_outcome>>
siLocals == <<sound_id, retry_count, start_time, attempts, elapsed, delay, ret>>
observed == <<tries, sleeps, lastFetchStart, lastGap, ctorCalls, createCalls, createFailed,
              closeCalls, stopCalls, attempted, sigItem>>
vars == <<inputs, pc, caller, now, globals, pmsLocals, siLocals, files, written,
          signals, unwinding, observed>>

\* ------------------------------------------------------------- inputs
\* load_sound_ids_from_file: the non-empty stripped lines, in file order.
IdLists == {[k \in 1..n |-> k] : n \in 0..MaxIds}
Counts == (-1)..MaxIds
SINGLE_ID == MaxIds + 1     \* the identifier given (or defaulted) on the command line

Init ==
    /\ script \in {"optimized", "basic"}
    /\ mode \in {"single", "batch", "file"}
    /\ script = "basic" => mode # "file"
    /\ argRetry \in IF script = "basic" THEN {DEFAULT_RETRY}
                  ELSE IF mode = "single" THEN 0..MaxRetry
                  ELSE {DEFAULT_RETRY, MaxRetry}
    /\ IF mode = "single"
         THEN fileIds = <<>> /\ argCount = 0
         ELSE fileIds \in IdLists /\ argCount \in Counts
    /\ pc = "main"
    /\ caller = "main"
    /\ now = 1
    /\ api_instance = None
    /\ last_request_time = 0
    /\ shutting_down = FALSE
    /\ sessions_ready = FALSE
    /\ sound_ids = <<>> /\ idx = 0 /\ results = <<>>
    /\ csv_file = "none" /\ csv_rows = <<>> /\ pms_outcome = "none"
    /\ sound_id = 0 /\ retry_count = 0 /\ start_time = 0 /\ attempts = 0
    /\ elapsed = 0 /\ delay = 0 /\ ret = None
    /\ files = {} /\ written = {}
    /\ signals = 0 /\ unwinding = "none"
    /\ tries = 0 /\ sleeps = <<>> /\ lastFetchStart = 0 /\ lastGap = MIN_REQUEST_DELAY
    /\ ctorCalls = 0 /\ createCalls = 0 /\ createFailed = FALSE
    /\ closeCalls = 0 /\ stopCalls = 0
    /\ attempted = {} /\ sigItem = 0
\* ------------------------------------------------------------ helpers
\* Python's seq[:k]
Slice(s, k) ==
    IF k >= 0 THEN SubSeq(s, 1, Min(k, Len(s)))
              ELSE SubSeq(s, 1, Max(Len(s) + k, 0))

\* Truncate with the slice one too long.
Truncate_OffByOne(ids, max_sounds) ==
    IF max_sounds # 0 /\ max_sounds > 0 THEN Slice(ids, max_sounds + 1) ELSE ids

\* sound_info_optimized.py: if max_sounds and max_sounds > 0: sound_ids[:max_sounds]
Truncate(ids, max_sounds) ==
    IF max_sounds # 0 /\ max_sounds > 0 THEN Slice(ids, max_sounds) ELSE ids

\* sound_info.py: if max_sounds: sound_ids[:max_sounds]
TruncateBasic(ids, max_sounds) ==
    IF max_sounds # 0 THEN Slice(ids, max_sounds) ELSE ids

\* The rate limiter: how long sound_info sleeps before its first attempt.
RateDelay(start, last) ==
    IF last > 0 /\ start - last < MIN_REQUEST_DELAY
        THEN MIN_REQUEST_DELAY - (start - last)
        ELSE 0

\* The flag as the running script sees it (sound_info.py has none).
ShuttingDown == script = "optimized" /\ shutting_down

\* LoopCond with "<" for "<=".
LoopCond_Strict(a, r, sd) == a < r /\ ~sd

\* while attempts <= retry_count and not shutting_down
LoopCond(a, r, sd) == a <= r /\ ~sd

\* RetryCond without the test of the flag.
RetryCond_IgnoresShutdown(a, r, sd) == a <= r

\* if attempts <= retry_count and not shutting_down  (after attempts += 1)
RetryCond(a, r, sd) == a <= r /\ ~sd

\* main's choice between the batch driver and a single fetch
RunsBatch ==
    IF script = "optimized"
        THEN (mode = "batch" /\ argCount # 0) \/ mode = "file"
        ELSE mode = "batch"

\* result, time_taken = await sound_info(...): unpacking needs two elements
Unpacks(r) == Len(r) = 2

\* sound_info's frame is gone once its caller has taken the result.
ReturnFromSoundInfo ==
    /\ sound_id' = 0 /\ retry_count' = 0
    /\ start_time' = 0 /\ attempts' = 0 /\ elapsed' = 0 /\ delay' = 0
    /\ ret' = None
    /\ tries' = 0 /\ sleeps' = <<>>

\* A call of sound_info(id, r) from `who`.
CallSoundInfo(id, r, who) ==
    /\ pc' = "si_entry"
    /\ caller' = who
    /\ sound_id' = id
    /\ retry_count' = r
    /\ start_time' = 0 /\ attempts' = 0 /\ elapsed' = 0 /\ delay' = 0
    /\ ret' = None
    /\ tries' = 0 /\ sleeps' = <<>>

\* ------------------------------------------------------------ main
main_dispatch ==
    /\ pc = "main"
    /\ IF RunsBatch
         THEN /\ pc' = "pms_start"
              /\ UNCHANGED <<caller, siLocals, tries, sleeps>>
         ELSE CallSoundInfo(SINGLE_ID, argRetry, "main")
    /\ UNCHANGED <<inputs, now, globals, pmsLocals, files, written, signals, unwinding,
                   lastFetchStart, lastGap, ctorCalls, createCalls, createFailed,
                   closeCalls, stopCalls, attempted, sigItem>>

\* ------------------------------------------- process_multiple_sounds
pms_start ==
    /\ pc = "pms_start"
    /\ sound_ids' = IF script = "optimized" THEN Truncate(fileIds, argCount)
                                            ELSE TruncateBasic(fileIds, argCount)
    /\ csv_file' = "open"
    /\ csv_rows' = <<>>
    /\ results' = <<>>
    /\ idx' = 1
    /\ pc' = "pms_loop"
    /\ UNCHANGED <<inputs, caller, now, globals, pms_outcome, siLocals, files, written,
                   signals, unwinding, observed>>

pms_loop ==
    /\ pc = "pms_loop"
    /\ IF idx > Len(sound_ids) \/ ShuttingDown
         THEN /\ pc' = "pms_summary"
              /\ UNCHANGED <<caller, siLocals, tries, sleeps>>
         ELSE CallSoundInfo(sound_ids[idx], DEFAULT_RETRY, "pms")
    /\ UNCHANGED <<inputs, now, globals, pmsLocals, files, written, signals, unwinding,
                   lastFetchStart, lastGap, ctorCalls, createCalls, createFailed,
                   closeCalls, stopCalls, attempted, sigItem>>

\* An exception leaving process_multiple_sounds: its finally closes the CSV,
\* then main's "except Exception" (optimized) or nothing (basic) meets it.
PmsRaises ==
    /\ csv_file' = "closed"
    /\ pms_outcome' = "raised"
    /\ IF script = "optimized"
         THEN pc' = "main_except" /\ UNCHANGED unwinding
         ELSE pc' = "main_finally" /\ unwinding' = "Exception"

\* pms_record writing a row only for a success.
pms_record_NoFailureRows ==
    /\ pc = "si_return" /\ caller = "pms"
    /\ IF Unpacks(ret)
         THEN /\ results' = Append(results, <<sound_id, ret[1] # None>>)
              /\ csv_rows' = IF ret[1] # None
                                THEN Append(csv_rows, <<sound_id, TRUE>>)
                                ELSE csv_rows
              /\ idx' = idx + 1
              /\ pc' = "pms_loop"
              /\ UNCHANGED <<csv_file, pms_outcome, unwinding>>
         ELSE /\ PmsRaises
              /\ UNCHANGED <<results, csv_rows, idx>>
    /\ ReturnFromSoundInfo
    /\ UNCHANGED <<inputs, caller, now, globals, sound_ids, files, written, signals,
                   lastFetchStart, lastGap, ctorCalls, createCalls,
                   createFailed, closeCalls, stopCalls, attempted, sigItem>>

\* result, time_taken = await sound_info(...); results.append(...);
\* csv_writer.writerow(...); csv_file.flush()
pms_record ==
    /\ pc = "si_return" /\ caller = "pms"
    /\ IF Unpacks(ret)
         THEN /\ results' = Append(results, <<sound_id, ret[1] # None>>)
              /\ csv_rows' = Append(csv_rows, <<sound_id, ret[1] # None>>)
              /\ idx' = idx + 1
              /\ pc' = "pms_loop"
              /\ UNCHANGED <<csv_file, pms_outcome, unwinding>>
         ELSE /\ PmsRaises
              /\ UNCHANGED <<results, csv_rows, idx>>
    /\ ReturnFromSoundInfo
    /\ UNCHANGED <<inputs, caller, now, globals, sound_ids, files, written, signals,
                   lastFetchStart, lastGap, ctorCalls, createCalls,
                   createFailed, closeCalls, stopCalls, attempted, sigItem>>

pms_summary ==
    /\ pc = "pms_summary"
    /\ IF script = "basic" /\ Len(sound_ids) = 0
         THEN PmsRaises
         ELSE /\ pms_outcome' = "returned"
              /\ csv_file' = "closed"
              /\ pc' = "main_finally"
              /\ UNCHANGED unwinding
    /\ UNCHANGED <<inputs, caller, now, globals, sound_ids, idx, results,
                   csv_rows, siLocals, files, written, signals, observed>>

\* ------------------------------------------------------- initialize_api
\* initialize_api with the global assigned only once create_sessions has
\* returned.
initialize_api_AssignLate ==
    /\ pc = "si_init"
    /\ IF api_instance = None
         THEN \E outcome \in {"ok", "ctor_raises", "create_raises"} :
                IF outcome = "ctor_raises"
                  THEN /\ pc' = "si_except"
                       /\ UNCHANGED <<api_instance, sessions_ready, ctorCalls,
                                      createCalls, createFailed>>
                  ELSE /\ api_instance' = IF outcome = "ok" THEN <<"TikTokApi">>
                                                            ELSE None
                       /\ ctorCalls' = ctorCalls + 1
                       /\ createCalls' = createCalls + 1
                       /\ sessions_ready' = (outcome = "ok")
                       /\ createFailed' = (outcome = "create_raises")
                       /\ pc' = IF outcome = "ok" THEN "si_fetch" ELSE "si_except"
         ELSE /\ pc' = "si_fetch"
              /\ UNCHANGED <<api_instance, sessions_ready, ctorCalls,
                             createCalls, createFailed>>
    /\ UNCHANGED <<inputs, caller, now, last_request_time, shutting_down,
                   pmsLocals, siLocals, files, written, signals, unwinding, tries,
                   sleeps, lastFetchStart, lastGap, closeCalls, stopCalls,
                   attempted, sigItem>>

\* if api_instance is None: api_instance = TikTokApi(); await create_sessions(...)
\* return api_instance.  Either call of the external library may raise; the
\* global is assigned between the two.
initialize_api ==
    /\ pc = "si_init"
    /\ IF api_instance = None
         THEN \E outcome \in {"ok", "ctor_raises", "create_raises"} :
                IF outcome = "ctor_raises"
                  THEN /\ pc' = "si_except"
                       /\ UNCHANGED <<api_instance, sessions_ready, ctorCalls,
                                      createCalls, createFailed>>
                  ELSE /\ api_instance' = <<"TikTokApi">>
                       /\ ctorCalls' = ctorCalls + 1
                       /\ createCalls' = createCalls + 1
                       /\ sessions_ready' = (outcome = "ok")
                       /\ createFailed' = (outcome = "create_raises")
                       /\ pc' = IF outcome = "ok" THEN "si_fetch" ELSE "si_except"
         ELSE /\ pc' = "si_fetch"
              /\ UNCHANGED <<api_instance, sessions_ready, ctorCalls,
                             createCalls, createFailed>>
    /\ UNCHANGED <<inputs, caller, now, last_request_time, shutting_down,
                   pmsLocals, siLocals, files, written, signals, unwinding, tries,
                   sleeps, lastFetchStart, lastGap, closeCalls, stopCalls,
                   attempted, sigItem>>

\* ------------------------------------------------------------ sound_info
\* The shutdown check on entry, start_time, and the rate limiter's decision.
sound_info_entry ==
    /\ pc = "si_entry"
    /\ IF ShuttingDown
         THEN /\ ret' = <<None, 0>>
              /\ pc' = "si_return"
              /\ UNCHANGED <<start_time, delay>>
         ELSE /\ start_time' = now
              /\ delay' = RateDelay(now, last_request_time)
              /\ pc' = IF delay' > 0 THEN "si_ratesleep" ELSE "si_loop"
              /\ UNCHANGED ret
    /\ UNCHANGED <<inputs, caller, now, globals, pmsLocals, sound_id,
                   retry_count, attempts, elapsed, files, written, signals, unwinding,
                   observed>>

\* await asyncio.sleep(delay) of the rate limiter
rate_sleep ==
    /\ pc = "si_ratesleep"
    /\ now' = now + delay
    /\ pc' = "si_loop"
    /\ UNCHANGED <<inputs, caller, globals, pmsLocals, siLocals, files, written,
                   signals, unwinding, observed>>

\* The while test.  When it is false the function body ends: Python returns
\* a bare None.
retry_loop ==
    /\ pc = "si_loop"
    /\ IF LoopCond(attempts, retry_count, ShuttingDown)
         THEN /\ pc' = "si_init"
              /\ tries' = tries + 1
              /\ attempted' = attempted \cup {sound_id}
              /\ UNCHANGED ret
         ELSE /\ ret' = None
              /\ pc' = "si_return"
              /\ UNCHANGED <<tries, attempted>>
    /\ UNCHANGED <<inputs, caller, now, globals, pmsLocals, sound_id,
                   retry_count, start_time, attempts, elapsed, delay, files, written,
                   signals, unwinding, sleeps, lastFetchStart, lastGap, ctorCalls,
                   createCalls, createFailed, closeCalls, stopCalls, sigItem>>

\* sound = api.sound(id=sound_id); the call of sound.info() starts
fetch_start ==
    /\ pc = "si_fetch"
    /\ lastFetchStart' = now
    /\ lastGap' = IF lastFetchStart = 0 THEN MIN_REQUEST_DELAY
                  ELSE Min(now - lastFetchStart, MIN_REQUEST_DELAY)
    /\ pc' = "fetching"
    /\ UNCHANGED <<inputs, caller, now, globals, pmsLocals, siLocals, files, written,
                   signals, unwinding, tries, sleeps, ctorCalls, createCalls,
                   createFailed, closeCalls, stopCalls, attempted, sigItem>>

\* What sound_info does when sound.info() has returned.
FetchSucceeded(t) ==
    /\ elapsed' = t - start_time
    /\ last_request_time' = t
    /\ pc' = "si_save"

\* What sound_info does when sound.info() has raised.
FetchFailed(t) ==
    /\ pc' = "si_except"
    /\ UNCHANGED <<elapsed, last_request_time>>

\* sound.info() completes after d ticks, with a payload or an exception.
\* A client without a session cannot answer.
fetch_done ==
    /\ pc = "fetching"
    /\ \E d \in 0..MaxFetchTime, ok \in BOOLEAN :
        /\ ok => sessions_ready
        /\ now' = now + d
        /\ IF ok THEN FetchSucceeded(now') ELSE FetchFailed(now')
    /\ UNCHANGED <<inputs, caller, api_instance, shutting_down, sessions_ready,
                   pmsLocals, sound_id, retry_count, start_time, attempts,
                   delay, ret, files, written, signals, unwinding, observed>>

\* save_payload with a failed json.dump let through: the payload is returned
\* although the file is incomplete.
save_payload_IgnoresDumpError ==
    /\ pc = "si_save"
    /\ \E w \in {"ok", "open_raises", "dump_raises"} :
        /\ files' = IF w = "open_raises" THEN files ELSE files \cup {sound_id}
        /\ written' = CASE w = "ok" -> written \cup {sound_id}
                        [] w = "dump_raises" -> written \ {sound_id}
                        [] OTHER -> written
        /\ IF w # "open_raises"
             THEN ret' = <<(<<sound_id>>), elapsed>> /\ pc' = "si_return"
             ELSE pc' = "si_except" /\ UNCHANGED ret
    /\ UNCHANGED <<inputs, caller, now, globals, pmsLocals, sound_id,
                   retry_count, start_time, attempts, elapsed, delay, signals,
                   unwinding, observed>>

\* with open(output_file, "w") as f: json.dump(...); return sound_details, elapsed
\* open creates (or empties) the file; json.dump fills it.
save_payload ==
    /\ pc = "si_save"
    /\ \E w \in {"ok", "open_raises", "dump_raises"} :
        /\ files' = IF w = "open_raises" THEN files ELSE files \cup {sound_id}
        /\ written' = CASE w = "ok" -> written \cup {sound_id}
                        [] w = "dump_raises" -> written \ {sound_id}
                        [] OTHER -> written
        /\ IF w = "ok"
             THEN ret' = <<(<<sound_id>>), elapsed>> /\ pc' = "si_return"
             ELSE pc' = "si_except" /\ UNCHANGED ret
    /\ UNCHANGED <<inputs, caller, now, globals, pmsLocals, sound_id,
                   retry_count, start_time, attempts, elapsed, delay, signals,
                   unwinding, observed>>

\* except Exception: attempts += 1; retry after a sleep, or give up
handle_exception ==
    /\ pc = "si_except"
    /\ attempts' = attempts + 1
    /\ IF RetryCond(attempts', retry_count, ShuttingDown)
         THEN /\ delay' = RETRY_BASE_DELAY * attempts'
              /\ pc' = "si_backoff"
              /\ UNCHANGED <<elapsed, ret>>
         ELSE /\ elapsed' = now - start_time
              /\ ret' = <<None, elapsed'>>
              /\ pc' = "si_return"
              /\ UNCHANGED delay
    /\ UNCHANGED <<inputs, caller, now, globals, pmsLocals, sound_id,
                   retry_count, start_time, files, written, signals, unwinding,
                   observed>>

\* await asyncio.sleep(retry_delay)
backoff_sleep ==
    /\ pc = "si_backoff"
    /\ now' = now + delay
    /\ sleeps' = Append(sleeps, delay)
    /\ pc' = "si_loop"
    /\ UNCHANGED <<inputs, caller, globals, pmsLocals, siLocals, files, written,
                   signals, unwinding, tries, lastFetchStart, lastGap, ctorCalls,
                   createCalls, createFailed, closeCalls, stopCalls, attempted, sigItem>>

\* ------------------------------------------------------- main, continued
\* result, time_taken = await sound_info(...) in single-identifier mode
main_single ==
    /\ pc = "si_return" /\ caller = "main"
    /\ IF Unpacks(ret)
         THEN pc' = "main_finally" /\ UNCHANGED unwinding
         ELSE IF script = "optimized"
                THEN pc' = "main_except" /\ UNCHANGED unwinding
                ELSE pc' = "main_finally" /\ unwinding' = "Exception"
    /\ ReturnFromSoundInfo
    /\ UNCHANGED <<inputs, caller, now, globals, pmsLocals, files, written, signals,
                   lastFetchStart, lastGap, ctorCalls, createCalls,
                   createFailed, closeCalls, stopCalls, attempted, sigItem>>

\* except Exception as e: logger.error(...)
main_except ==
    /\ pc = "main_except"
    /\ pc' = "main_finally"
    /\ UNCHANGED <<inputs, caller, now, globals, pmsLocals, siLocals, files, written,
                   signals, unwinding, observed>>

\* How the process ends once main's finally clause is over.
Finish ==
    CASE unwinding = "none" -> "done"
      [] unwinding = "SystemExit" -> "exited"
      [] OTHER -> "crashed"

\* finally: if api_instance: try: await api_instance.close_sessions() ...
\* An exception of close_sessions goes to "except Exception" of the cleanup,
\* which logs it: stop_playwright is then not reached.
main_finally ==
    /\ pc = "main_finally"
    /\ IF api_instance # None
         THEN /\ closeCalls' = closeCalls + 1
              /\ \E raises \in BOOLEAN :
                    pc' = IF raises THEN Finish ELSE "main_stop"
         ELSE /\ pc' = Finish
              /\ UNCHANGED closeCalls
    /\ UNCHANGED <<inputs, caller, now, globals, pmsLocals, siLocals, files, written,
                   signals, unwinding, tries, sleeps, lastFetchStart, lastGap,
                   ctorCalls, createCalls, createFailed, stopCalls, attempted,
                   sigItem>>

\* await api_instance.stop_playwright(); whether it returns or raises, the
\* cleanup is over.
main_stop ==
    /\ pc = "main_stop"
    /\ stopCalls' = stopCalls + 1
    /\ \E raises \in BOOLEAN : pc' = Finish
    /\ UNCHANGED <<inputs, caller, now, globals, pmsLocals, siLocals, files, written,
                   signals, unwinding, tries, sleeps, lastFetchStart, lastGap,
                   ctorCalls, createCalls, createFailed, closeCalls, attempted,
                   sigItem>>

\* --------------------------------------------------------- signal_handler
Terminated == pc \in {"done", "exited", "crashed"}

\* The positions at which sound_info is past its entry check for a batch item.
InItem ==
    /\ caller = "pms"
    /\ pc \in {"si_ratesleep", "si_loop", "si_init", "si_fetch", "fetching",
               "si_save", "si_except", "si_backoff"}

\* signal_handler without the forced exit: a later signal only sets the flag
\* again.
signal_handler_NoForcedExit ==
    /\ script = "optimized"
    /\ ~Terminated
    /\ signals < MaxSignals
    /\ signals' = signals + 1
    /\ shutting_down' = TRUE
    /\ sigItem' = IF ~shutting_down /\ InItem THEN idx ELSE sigItem
    /\ UNCHANGED <<unwinding, csv_file, pc>>
    /\ UNCHANGED <<inputs, caller, now, api_instance, last_request_time,
                   sessions_ready, sound_ids, idx, results, csv_rows,
                   pms_outcome, siLocals, files, written, tries, sleeps, lastFetchStart, lastGap,
                   ctorCalls, createCalls, createFailed, closeCalls, stopCalls, attempted>>

\* SIGINT / SIGTERM, delivered between any two steps of the task.
signal_handler ==
    /\ script = "optimized"
    /\ ~Terminated
    /\ signals < MaxSignals
    /\ signals' = signals + 1
    /\ IF shutting_down
         THEN \* sys.exit(1): SystemExit passes "except Exception", runs finally
              /\ unwinding' = "SystemExit"
              /\ csv_file' = IF csv_file = "open" THEN "closed" ELSE csv_file
              /\ pc' = IF pc \in {"main_finally", "main_stop"} THEN "exited"
                                                              ELSE "main_finally"
              /\ UNCHANGED <<shutting_down, sigItem>>
         ELSE /\ shutting_down' = TRUE
              /\ sigItem' = IF InItem THEN idx ELSE sigItem
              /\ UNCHANGED <<unwinding, csv_file, pc>>
    /\ UNCHANGED <<inputs, caller, now, api_instance, last_request_time,
                   sessions_ready, sound_ids, idx, results, csv_rows,
                   pms_outcome, siLocals, files, written, tries, sleeps, lastFetchStart, lastGap,
                   ctorCalls, createCalls, createFailed, closeCalls, stopCalls, attempted>>

\* ---------------------------------------------------------- specification
Next ==
    \/ main_dispatch
    \/ pms_start
    \/ pms_loop
    \/ pms_record
    \/ pms_summary
    \/ sound_info_entry
    \/ rate_sleep
    \/ retry_loop
    \/ initialize_api
    \/ fetch_start
    \/ fetch_done
    \/ save_payload
    \/ handle_exception
    \/ backoff_sleep
    \/ main_single
    \/ main_except
    \/ main_finally
    \/ main_stop
    \/ signal_handler

Spec == Init /\ [][Next]_vars

\* ================================================================ claims
\* Positions after which process_multiple_sounds is over.
PmsOver == pc \in {"main_except", "main_finally", "done", "exited", "crashed"}

\* C1 (as claimed): when the first signal arrives while the batch driver is
\* working on item N, and no second signal follows, the driver ends by
\* returning its results, with a row for item N as the last row of the CSV.
C1_FinishesCurrentItem ==
    (sigItem > 0 /\ signals = 1 /\ PmsOver) =>
        /\ pms_outcome = "returned"
        /\ Len(csv_rows) = sigItem
        /\ csv_rows[sigItem][1] = sound_ids[sigItem]

\* C2 (as claimed): every row of the result log names an identifier for which
\* a fetch attempt was made (the try body of sound_info was entered).
C2_RowsOnlyForAttempted ==
    \A k \in 1..Len(csv_rows) : csv_rows[k][1] \in attempted

\* C3 (as claimed): two consecutive sound.info() calls never start less than
\* MIN_REQUEST_DELAY apart.
C3_MinSpacing == lastGap >= MIN_REQUEST_DELAY

\* C4 (as claimed): once create_sessions has raised, the exception leaves
\* sound_info and ends the run: no retry sleep, no further attempt, no fetch,
\* and no result handed to the caller as a per-item failure.
C4_InitFailureIsFatal ==
    createFailed =>
        pc \in {"si_except", "main_except", "main_finally", "done", "exited",
                "crashed"}

\* The backoff sleeps after failures 1..n: k * 1 second after the k-th.
BackoffSchedule(n) == [k \in 1..n |-> k * RETRY_BASE_DELAY]

\* C5: with no shutdown requested and a retry count R >= 0, a sound_info call
\* that gives up has made exactly R+1 attempts, has slept k seconds after the
\* k-th failure for k = 1..R and not after the last, and returns
\* (None, elapsed); a call whose attempt succeeded made no attempt after it
\* (one more attempt than failures) and returns the payload.
C5_RetrySchedule ==
    (pc = "si_return" /\ ~ShuttingDown /\ retry_count >= 0) =>
        /\ Unpacks(ret)
        /\ ret[1] = None =>
             /\ tries = retry_count + 1
             /\ sleeps = BackoffSchedule(retry_count)
             /\ ret[2] = now - start_time
        /\ ret[1] # None =>
             /\ ret[1] = <<sound_id>>
             /\ attempts <= retry_count
             /\ tries = attempts + 1
             /\ sleeps = BackoffSchedule(attempts)

\* C5 witness: a call with the largest retry count has exhausted its retries.
C5_Witness ==
    /\ pc = "si_return" /\ ~ShuttingDown
    /\ retry_count = MaxRetry
    /\ Unpacks(ret) /\ ret[1] = None
    /\ tries = MaxRetry + 1
    /\ Len(sleeps) = MaxRetry

ProcessedIds == [k \in 1..Len(results) |-> results[k][1]]

\* C6 (as claimed): for every cap, zero and negative included, at most cap
\* identifiers are processed, and with no shutdown exactly the first
\* min(cap, len) of the file.
C6_CapHonoured ==
    /\ Len(results) <= Max(argCount, 0)
    /\ (pms_outcome = "returned" /\ ~ShuttingDown) =>
           ProcessedIds = SubSeq(fileIds, 1, Min(Max(argCount, 0), Len(fileIds)))

\* How many identifiers a run is to process: a positive cap limits, zero does
\* not; a negative cap does not limit in sound_info_optimized.py and cuts
\* the last |cap| identifiers in sound_info.py.
Limit ==
    IF argCount > 0 THEN Min(argCount, Len(fileIds))
    ELSE IF argCount = 0 \/ script = "optimized" THEN Len(fileIds)
    ELSE Max(Len(fileIds) + argCount, 0)

\* C6 (amended): the processed identifiers are a prefix of the file, in file
\* order, never longer than Limit, each with one CSV row; with no shutdown the
\* driver returns with exactly Limit identifiers processed.
C6_CapAmended ==
    /\ Len(results) <= Limit
    /\ ProcessedIds = SubSeq(fileIds, 1, Len(results))
    /\ Len(csv_rows) = Len(results)
    /\ (pms_outcome = "returned" /\ ~ShuttingDown) => Len(results) = Limit

\* C6 witness: a cap smaller than the file has cut the batch short.
C6_Witness ==
    /\ pms_outcome = "returned" /\ ~ShuttingDown
    /\ argCount > 0 /\ argCount < Len(fileIds)
    /\ Len(results) = argCount
    /\ Len(csv_rows) = argCount

\* C7 (as claimed): whenever sound_info hands control back to its caller, it
\* hands back a two-element result.
C7_AlwaysReturnsPair == pc = "si_return" => Unpacks(ret)

\* C8: the client is constructed at most once and create_sessions is invoked
\* at most once; while api_instance is set it is that one client.
C8_InitializedOnce ==
    /\ ctorCalls <= 1
    /\ createCalls <= 1
    /\ api_instance # None => ctorCalls = 1 /\ createCalls = 1

\* C8 witness: a second attempt got the existing instance back from
\* initialize_api after the first attempt's create_sessions had raised.
C8_Witness ==
    /\ pc = "si_fetch" /\ tries = 2
    /\ createFailed /\ ctorCalls = 1 /\ createCalls = 1

\* C9 (as claimed): a handle that is handed to a fetch has had create_sessions
\* complete on it.
C9_HandleReady == pc \in {"si_fetch", "fetching"} => sessions_ready

\* A step in which a sound.info() call completes.
FetchCompletes == pc = "fetching" /\ pc' \in {"si_save", "si_except"}

\* C10 (as claimed): last_request_time is set to the current time by every
\* step in which a fetch call completes, and changed by no other step.
C10_LastCallTime ==
    [][ /\ FetchCompletes => last_request_time' = now'
        /\ last_request_time' # last_request_time => FetchCompletes ]_vars

\* C11 (as claimed): an identifier whose processing ended with retries
\* exhausted has a failure row and no output file, whichever step of its
\* attempts failed.
C11_NoFileOnExhaustion ==
    /\ (pc = "si_return" /\ Unpacks(ret) /\ ret[1] = None
           /\ tries = retry_count + 1) => sound_id \notin files
    /\ \A k \in 1..Len(csv_rows) :
           (csv_rows[k][1] \in attempted /\ ~csv_rows[k][2])
               => csv_rows[k][1] \notin files

\* C12: when sound_info returns a payload, and for every row whose success
\* flag is true, the identifier's output file exists and holds the whole
\* payload.
C12_SuccessHasFile ==
    /\ (pc = "si_return" /\ Unpacks(ret) /\ ret[1] # None) =>
           /\ ret[1] = <<sound_id>>
           /\ sound_id \in files /\ sound_id \in written
    /\ \A k \in 1..Len(csv_rows) :
           csv_rows[k][2] => (csv_rows[k][1] \in files /\ csv_rows[k][1] \in written)

\* C12 witness: the batch driver has recorded a success, and the file of that
\* identifier is complete.
C12_Witness ==
    /\ Len(csv_rows) >= 1 /\ csv_rows[1][2]
    /\ csv_rows[1][1] \in written
    /\ pc = "pms_loop"

IsPrefix(a, b) == Len(a) <= Len(b) /\ SubSeq(b, 1, Len(a)) = a

\* The CSV once the batch driver has opened it: one flushed row per completed
\* item, for the first idx - 1 identifiers in input order, with the outcome
\* the driver put in results.
CsvMatchesCompleted ==
    csv_file # "none" =>
        /\ Len(csv_rows) = idx - 1
        /\ csv_rows = results
        /\ [k \in 1..Len(csv_rows) |-> csv_rows[k][1]]
               = SubSeq(sound_ids, 1, Len(csv_rows))

SignalStep == signals' = signals + 1

\* C14: the shutdown coordinator only moves forward.  The first signal sets
\* shutting_down and leaves the task where it is; a signal received while
\* shutting_down is set raises SystemExit (sys.exit(1)); shutting_down is never
\* reset; and from the second signal on no attempt is begun, no fetch is
\* started, no CSV row is written, and the task is in main's cleanup or gone.
C14_ForwardOnly ==
    [][ /\ shutting_down => shutting_down'
        /\ (SignalStep /\ ~shutting_down) =>
               (shutting_down' /\ unwinding' = unwinding /\ pc' = pc)
        /\ (SignalStep /\ shutting_down) => unwinding' = "SystemExit"
        /\ (unwinding' = "SystemExit") =>
               /\ unwinding \in {"none", "SystemExit"}
               /\ csv_rows' = csv_rows
               /\ tries' = tries
               /\ lastFetchStart' = lastFetchStart
               /\ pc' \in {"main_finally", "main_stop", "exited"}
        /\ unwinding = "SystemExit" => unwinding' = "SystemExit" ]_vars

\* C14 witness: a second signal has ended a batch that had recorded one item
\* and was working on the next.
C14_Witness ==
    /\ pc = "exited" /\ signals = 2
    /\ Len(csv_rows) = 1 /\ idx = 2 /\ Len(sound_ids) = 2
    /\ pms_outcome = "none"

\* C16 (as claimed): when main has finished and the client was created,
\* close_sessions and stop_playwright have each been performed exactly once
\* (paths ended by a second signal aside).
C16_TeardownOnce ==
    (pc \in {"done", "crashed"} /\ api_instance # None) =>
        closeCalls = 1 /\ stopCalls = 1

\* sound_info has given up on an identifier it had begun to process: it is
\* about to return without a payload.
GaveUp == pc = "si_return" /\ start_time > 0 /\ (Unpacks(ret) => ret[1] = None)

\* C15 (as claimed): the flag only decides whether the next batch item is
\* started; an item that has begun and ends without a payload has run its
\* whole schedule of retry_count + 1 attempts, shutdown request or not.
C15_FullSchedule == GaveUp => tries = retry_count + 1

\* C15 (amended): sound_info tests the flag too.  Without a shutdown request
\* an item that ends without a payload has run retry_count + 1 attempts.
\* Once shutdown is requested no new attempt of the item is begun and no
\* backoff sleep is started; the attempt in progress is not interrupted by the
\* request itself (its steps, or a second signal, are all that move the task).
C15_ShutdownStopsRetries ==
    [][ /\ (GaveUp /\ ~ShuttingDown)' => (tries = retry_count + 1)'
        /\ ShuttingDown =>
              /\ tries' = tries \/ tries' = 0
              /\ pc' = "si_backoff" => pc = "si_backoff"
        /\ (SignalStep /\ ~shutting_down) => UNCHANGED <<pc, siLocals, tries>> ]_vars

\* C15 witness: a shutdown was requested during the first attempt of an item
\* with retries left; the attempt ran to its failure and the item was given up
\* after that one attempt.
C15_Witness ==
    /\ GaveUp /\ shutting_down /\ signals = 1
    /\ Unpacks(ret)
    /\ tries = 1 /\ retry_count >= 1 /\ sleeps = <<>>

\* C17 (as claimed): in every invocation form of sound_info_optimized.py an
\* identifier whose attempts all fail, with no shutdown requested, has been
\* attempted exactly R + 1 times, R being the value of --retry.
C17_RetryFlagBounds ==
    (script = "optimized" /\ GaveUp /\ ~shutting_down) => tries = argRetry + 1

\* C18 (as claimed): process_multiple_sounds does not raise, whatever the
\* list (runs that received a signal aside); when it has returned the CSV is
\* closed and results holds one entry per row, with the same success values.
C18_BatchCompletes ==
    /\ signals = 0 => pms_outcome # "raised"
    /\ pms_outcome = "returned" => csv_file = "closed" /\ results = csv_rows

\* The batch never runs more than retry_count + 1 attempts of an item, and
\* only attempts the item whose record is not yet written.
C19_BoundedAttempts ==
    (caller = "pms" /\ tries > 0) =>
        /\ tries <= retry_count + 1
        /\ idx <= Len(sound_ids) /\ sound_id = sound_ids[idx]
        /\ Len(csv_rows) = idx - 1
        /\ \A i \in 1..Len(csv_rows) : csv_rows[i][1] # sound_id

\* C19 (as claimed): a batch run of sound_info_optimized.py makes a bounded
\* number of attempts, never returns to a recorded identifier, and, unless a
\* second signal forces the exit, process_multiple_sounds reaches its return.
C19_BatchTerminates ==
    /\ C19_BoundedAttempts
    /\ (script = "optimized" /\ RunsBatch /\ PmsOver /\ signals < 2) =>
           pms_outcome = "returned"
====
